---- MODULE Spec2Model ----
(***************************************************************************)
(* A model of omoa.py: the OllamaMixtureOfAgents orchestrator, its agents, *)
(* the web augmentation and the two memory stores.                         *)
(*                                                                         *)
(* A text is a sequence of lexical tokens; the Python string it stands for *)
(* is the concatenation of its tokens.  A token is either pure whitespace  *)
(* (a member of WS) or holds no whitespace at its ends, and no marker the  *)
(* code searches for straddles two tokens, so that `in`, split, startswith *)
(* and strip on the string agree with the token-level operators below.     *)
(***************************************************************************)
EXTENDS Integers, Sequences, FiniteSets, TLC

\* ------------------------------------------------------------------ tokens
SP == " "
NL == "\n"
NL2 == "\n\n"
WS == {SP, NL, NL2}

SEARCH_MARKER == "[SEARCH:"
CLOSE == "]"
ERROR_PREFIX == "Error:"
SUCCESS_MARKER == "Based on the following results:"
NO_INFO == "No relevant information found from the web search."
ALL_FAILED == <<ERROR_PREFIX, SP, "All reference agents failed to generate responses.">>

\* ------------------------------------------------------------- str methods
RECURSIVE Chars(_)
\* the string a text stands for: its tokens written one after the other
Chars(s) == IF s = <<>> THEN "" ELSE Chars(SubSeq(s, 1, Len(s) - 1)) \o s[Len(s)]

\* whether one of the runs of n characters of the string str is part
InStringN(str, part, n) ==
    \E i \in 1..(Len(str) - n + 1) : SubSeq(str, i, i + n - 1) = part
\* whether the string part is a run of consecutive characters of the string str
InString(str, part) == InStringN(str, part, Len(part))

\* s1 in s2 (str.__contains__): a test on characters, so a part that lies
\* inside a token or across two tokens is found too.  A part that is a run of
\* whole tokens is found without writing the characters out.
Contains(s, part) ==
    \/ \E i \in 0..(Len(s) - Len(part)) : SubSeq(s, i + 1, i + Len(part)) = part
    \/ InString(Chars(s), Chars(part))

\* s.startswith(prefix)
StartsWith(s, prefix) ==
    /\ Len(prefix) <= Len(s)
    /\ SubSeq(s, 1, Len(prefix)) = prefix

\* the position of the first occurrence of token tok in s, 0 when there is none
FirstIndex(s, tok) ==
    IF \E i \in 1..Len(s) : s[i] = tok
    THEN CHOOSE i \in 1..Len(s) : s[i] = tok /\ \A j \in 1..(i - 1) : s[j] # tok
    ELSE 0

\* s.split(tok, 1)[1], for s holding tok
AfterFirst(s, tok) == SubSeq(s, FirstIndex(s, tok) + 1, Len(s))

\* s.split(tok, 1)[0]: all of s when tok does not occur
BeforeFirst(s, tok) ==
    IF FirstIndex(s, tok) = 0 THEN s ELSE SubSeq(s, 1, FirstIndex(s, tok) - 1)

\* s.strip()
Strip(s) ==
    IF \A i \in 1..Len(s) : s[i] \in WS
    THEN <<>>
    ELSE LET lo == CHOOSE i \in 1..Len(s) :
                       s[i] \notin WS /\ \A j \in 1..(i - 1) : s[j] \in WS
             hi == CHOOSE i \in 1..Len(s) :
                       s[i] \notin WS /\ \A j \in (i + 1)..Len(s) : s[j] \in WS
         IN SubSeq(s, lo, hi)

RECURSIVE Concat(_)
\* "".join(parts)
Concat(parts) ==
    IF parts = <<>> THEN <<>> ELSE Head(parts) \o Concat(Tail(parts))

RECURSIVE JoinWith(_, _)
\* sep.join(parts)
JoinWith(sep, parts) ==
    IF parts = <<>> THEN <<>>
    ELSE IF Len(parts) = 1 THEN Head(parts)
    ELSE Head(parts) \o sep \o JoinWith(sep, Tail(parts))

\* ------------------------------------------------------------------- json
\* The structured-data parser (json.loads / json.dumps) over tokens.  A value
\* is [t, s, items]: t = "str" (s the Python string), "lit" (s a number or
\* null token), "list" (items the values) or "dict" (items the [k, v] pairs in
\* insertion order).
LBRACE == "{"
RBRACE == "}"
LBRACK == "["
COLON == ":"
COMMA == ","

\* string literals of the token alphabet, with the Python string each denotes
JsonStringTable ==
    << <<"\"queries\"", "queries">>, <<"\"query\"", "query">>, <<"\"type\"", "type">>,
       <<"\"note\"", "note">>, <<"\"q1\"", "q1">>, <<"\"doc\"", "doc">>, <<"\"t\"", "t">>,
       <<"\"persona\"", "persona">>, <<"\"user\"", "user">>,
       <<"\"scratchpad\"", "scratchpad">>, <<"\"misc\"", "misc">>,
       <<"\"personality\"", "personality">>, <<"\"tone\"", "tone">>,
       <<"\"formal\"", "formal">> >>
JsonStrings == {JsonStringTable[i][1] : i \in 1..Len(JsonStringTable)}
Unquote(tok) ==
    JsonStringTable[CHOOSE i \in 1..Len(JsonStringTable) : JsonStringTable[i][1] = tok][2]
Quote(str) ==
    JsonStringTable[CHOOSE i \in 1..Len(JsonStringTable) : JsonStringTable[i][2] = str][1]
JsonLiterals == {"1", "null"}

JNone == [t |-> "none", s |-> "", items |-> <<>>]
JStr(str) == [t |-> "str", s |-> str, items |-> <<>>]
JLit(tok) == [t |-> "lit", s |-> tok, items |-> <<>>]
JList(vals) == [t |-> "list", s |-> "", items |-> vals]
JDict(pairs) == [t |-> "dict", s |-> "", items |-> pairs]
ParseFail == [ok |-> FALSE, v |-> JNone, n |-> 0]

\* the first position from i on that holds no whitespace (Len + 1 when none)
SkipWS(toks, i) ==
    IF \E j \in i..Len(toks) : toks[j] \notin WS
    THEN CHOOSE j \in i..Len(toks) :
             toks[j] \notin WS /\ \A m \in i..(j - 1) : toks[m] \in WS
    ELSE Len(toks) + 1

\* d[k] = v on an insertion-ordered dict: a repeated key keeps its place
DictPut(pairs, k, v) ==
    IF \E i \in 1..Len(pairs) : pairs[i].k = k
    THEN [i \in 1..Len(pairs) |->
             IF pairs[i].k = k THEN [k |-> k, v |-> v] ELSE pairs[i]]
    ELSE Append(pairs, [k |-> k, v |-> v])

DictHas(val, k) == \E i \in 1..Len(val.items) : val.items[i].k = k
DictGet(val, k) ==
    val.items[CHOOSE i \in 1..Len(val.items) : val.items[i].k = k].v

RECURSIVE ParseValue(_, _), ParseElems(_, _, _, _), ParseMembers(_, _, _, _)
RECURSIVE ElemsAfter(_, _, _), MembersAfter(_, _, _, _)
\* one value starting at or after position i0: [ok, v, n], n the position after it
ValueAt(toks, i) ==
    IF i > Len(toks) THEN ParseFail
    ELSE IF toks[i] \in JsonStrings
         THEN [ok |-> TRUE, v |-> JStr(Unquote(toks[i])), n |-> i + 1]
    ELSE IF toks[i] \in JsonLiterals
         THEN [ok |-> TRUE, v |-> JLit(toks[i]), n |-> i + 1]
    ELSE IF toks[i] = LBRACK THEN ParseElems(toks, SkipWS(toks, i + 1), <<>>, FALSE)
    ELSE IF toks[i] = LBRACE THEN ParseMembers(toks, SkipWS(toks, i + 1), <<>>, FALSE)
    ELSE ParseFail
ParseValue(toks, i0) == ValueAt(toks, SkipWS(toks, i0))

\* the elements of an array from position i (after "[" or a comma) to its "]"
ParseElems(toks, i, acc, afterComma) ==
    IF i > Len(toks) THEN ParseFail
    ELSE IF toks[i] = CLOSE /\ ~afterComma
         THEN [ok |-> TRUE, v |-> JList(acc), n |-> i + 1]
    ELSE ElemsAfter(toks, acc, ValueAt(toks, i))
\* ... after the element r was read
ElemsNext(toks, acc, j) ==
    IF j > Len(toks) THEN ParseFail
    ELSE IF toks[j] = COMMA THEN ParseElems(toks, SkipWS(toks, j + 1), acc, TRUE)
    ELSE IF toks[j] = CLOSE THEN [ok |-> TRUE, v |-> JList(acc), n |-> j + 1]
    ELSE ParseFail
ElemsAfter(toks, acc, r) ==
    IF ~r.ok THEN ParseFail ELSE ElemsNext(toks, Append(acc, r.v), SkipWS(toks, r.n))

\* the members of an object from position i (after "{" or a comma) to its "}"
MemberValue(toks, acc, key, c) ==
    IF c > Len(toks) \/ toks[c] # COLON THEN ParseFail
    ELSE MembersAfter(toks, acc, key, ParseValue(toks, c + 1))
ParseMembers(toks, i, acc, afterComma) ==
    IF i > Len(toks) THEN ParseFail
    ELSE IF toks[i] = RBRACE /\ ~afterComma
         THEN [ok |-> TRUE, v |-> JDict(acc), n |-> i + 1]
    ELSE IF toks[i] \notin JsonStrings THEN ParseFail
    ELSE MemberValue(toks, acc, Unquote(toks[i]), SkipWS(toks, i + 1))
\* ... after the member key: r was read
MembersNext(toks, acc, j) ==
    IF j > Len(toks) THEN ParseFail
    ELSE IF toks[j] = COMMA THEN ParseMembers(toks, SkipWS(toks, j + 1), acc, TRUE)
    ELSE IF toks[j] = RBRACE THEN [ok |-> TRUE, v |-> JDict(acc), n |-> j + 1]
    ELSE ParseFail
MembersAfter(toks, acc, key, r) ==
    IF ~r.ok THEN ParseFail
    ELSE MembersNext(toks, DictPut(acc, key, r.v), SkipWS(toks, r.n))

\* the whole text is one value: ok = FALSE stands for json.JSONDecodeError
WholeValue(text, r) ==
    IF r.ok /\ SkipWS(text, r.n) > Len(text)
    THEN [ok |-> TRUE, v |-> r.v]
    ELSE [ok |-> FALSE, v |-> JNone]
\* json.loads(text)
JsonLoads(text) == WholeValue(text, ParseValue(text, 1))

RECURSIVE JsonDumps(_), DumpElems(_), DumpMembers(_)
\* json.dumps(value): the canonical text, separators ", " and ": "
JsonDumps(val) ==
    CASE val.t = "str" -> <<Quote(val.s)>>
      [] val.t = "lit" -> <<val.s>>
      [] val.t = "list" -> <<LBRACK>> \o DumpElems(val.items) \o <<CLOSE>>
      [] val.t = "dict" -> <<LBRACE>> \o DumpMembers(val.items) \o <<RBRACE>>
DumpElems(vals) ==
    IF vals = <<>> THEN <<>>
    ELSE IF Len(vals) = 1 THEN JsonDumps(vals[1])
    ELSE JsonDumps(vals[1]) \o <<COMMA, SP>> \o DumpElems(Tail(vals))
DumpMembers(pairs) ==
    IF pairs = <<>> THEN <<>>
    ELSE LET one == <<Quote(pairs[1].k), COLON, SP>> \o JsonDumps(pairs[1].v) IN
         IF Len(pairs) = 1 THEN one
         ELSE one \o <<COMMA, SP>> \o DumpMembers(Tail(pairs))

\* json.dumps(value, indent=2)
Indent(n) == [i \in 1..n |-> SP]
RECURSIVE JsonDumpsIndent(_, _), DumpElemsIndent(_, _), DumpMembersIndent(_, _)
JsonDumpsIndent(val, depth) ==
    CASE val.t = "str" -> <<Quote(val.s)>>
      [] val.t = "lit" -> <<val.s>>
      [] val.t = "list" ->
            IF val.items = <<>> THEN <<LBRACK, CLOSE>>
            ELSE <<LBRACK, NL>> \o DumpElemsIndent(val.items, depth + 1)
                 \o <<NL>> \o Indent(2 * depth) \o <<CLOSE>>
      [] val.t = "dict" ->
            IF val.items = <<>> THEN <<LBRACE, RBRACE>>
            ELSE <<LBRACE, NL>> \o DumpMembersIndent(val.items, depth + 1)
                 \o <<NL>> \o Indent(2 * depth) \o <<RBRACE>>
DumpElemsIndent(vals, depth) ==
    LET one == Indent(2 * depth) \o JsonDumpsIndent(vals[1], depth) IN
    IF Len(vals) = 1 THEN one
    ELSE one \o <<COMMA, NL>> \o DumpElemsIndent(Tail(vals), depth)
DumpMembersIndent(pairs, depth) ==
    LET one == Indent(2 * depth) \o <<Quote(pairs[1].k), COLON, SP>>
               \o JsonDumpsIndent(pairs[1].v, depth) IN
    IF Len(pairs) = 1 THEN one
    ELSE one \o <<COMMA, NL>> \o DumpMembersIndent(Tail(pairs), depth)

\* ------------------------------------------------------- web augmentation
\* get_website_content_from_url: its first statement calls use_config, a name
\* the module never imports, so every call raises NameError inside the try and
\* returns the notice of the last except clause.
GetWebsiteContent(url) ==
    <<"An error occurred while processing", SP, url, COLON, SP,
      "name 'use_config' is not defined">>

RECURSIVE ResultString(_)
\* the loop of search_web over the results: each block followed by "\n\n"
ResultString(hrefs) ==
    IF hrefs = <<>> THEN <<>>
    ELSE GetWebsiteContent(Head(hrefs)) \o <<NL2>> \o ResultString(Tail(hrefs))

\* search_web, given the hrefs DDGS().text returned
SearchWeb(hrefs) ==
    IF Strip(ResultString(hrefs)) # <<>>
    THEN <<SUCCESS_MARKER, NL2>> \o ResultString(hrefs)
    ELSE <<NO_INFO>>

\* DDGS().text(query, ..., max_results=3): a list of results, or an exception
\* (no network, rate limit); search_web has no handler around the call.
DdgsOutcomes ==
    { [raised |-> TRUE, hrefs |-> <<>>],
      [raised |-> FALSE, hrefs |-> <<>>],
      [raised |-> FALSE, hrefs |-> <<"url1">>] }
NoSearch == [raised |-> FALSE, hrefs |-> <<>>]

\* ------------------------------------------------------------------ agent
Msg(role, content) == [role |-> role, content |-> content]

\* the completion function (generate_with_references): text in, text out; a
\* failed call is a text that begins with the error prefix.
PLAIN == <<"ans">>
ERR_TEXT == <<ERROR_PREFIX, SP, "timeout">>
MARKED == <<"ans", SP, SEARCH_MARKER, SP, "solar", SP, "flares", SP, CLOSE, SP, "more", CLOSE>>
RefCompletions == {PLAIN, ERR_TEXT, MARKED}

\* "[SEARCH:" in response
HasMarker(response) == Contains(response, <<SEARCH_MARKER>>)

\* response.split("[SEARCH:", 1)[1].split("]", 1)[0].strip()
SearchQuery(response) ==
    Strip(BeforeFirst(AfterFirst(response, SEARCH_MARKER), CLOSE))

\* the two-message exchange generate_response starts from
InitialMessages(system_prompt, message) ==
    <<Msg("system", system_prompt), Msg("user", message)>>

\* the two messages appended after a search round
FollowUp(messages, response, search_query, search_results) ==
    messages \o
    << Msg("assistant", response),
       Msg("user", <<"Here are the search results for '">> \o search_query
                   \o <<"':", NL2>> \o search_results
                   \o <<NL2, "Please provide an updated response based on this information.">>) >>

\* the try/except at the end of generate_response: canonical JSON when the
\* response parses, the response itself otherwise
Canonical(response, parsed) == IF parsed.ok THEN JsonDumps(parsed.v) ELSE response
FinalText(response) == Canonical(response, JsonLoads(response))

\* one generate_response call in flight.  st: "idle" (not started), "call1" /
\* "call2" (waiting for the first / second completion), "done", "raised".
\* ncalls counts completion calls, queries lists the search_web calls made.
IdleTask ==
    [st |-> "idle", messages |-> <<>>, raw |-> <<>>, response |-> <<>>,
     searched |-> FALSE, ncalls |-> 0, queries |-> <<>>]

\* generate_response up to its first await
TaskStart(system_prompt, message) ==
    [IdleTask EXCEPT !.st = "call1",
                     !.messages = InitialMessages(system_prompt, message),
                     !.ncalls = 1]

\* (variant: every completion that carries the marker starts a search round)
SearchRound_every_call(task, text) == HasMarker(text)
\* whether the code re-queries after a completion: only after the first one
SearchRound(task, text) == task.st = "call1" /\ HasMarker(text)

\* generate_response from a completion's return to its next await or its return
TaskReturn(task, text, ddgs) ==
    IF SearchRound(task, text)
    THEN IF ddgs.raised
         THEN [task EXCEPT !.st = "raised", !.raw = text, !.response = text,
                           !.searched = TRUE,
                           !.queries = Append(@, SearchQuery(text))]
         ELSE [task EXCEPT !.st = "call2", !.raw = text, !.response = text,
                           !.searched = TRUE,
                           !.queries = Append(@, SearchQuery(text)),
                           !.messages = FollowUp(@, text, SearchQuery(text),
                                                 SearchWeb(ddgs.hrefs)),
                           !.ncalls = @ + 1]
    ELSE [task EXCEPT !.st = "done",
                      !.messages = <<>>,
                      !.raw = IF task.st = "call1" THEN text ELSE @,
                      !.response = FinalText(text)]

\* ----------------------------------------------------------- orchestrator
Min(a, b) == IF a < b THEN a ELSE b
Max(a, b) == IF a > b THEN a ELSE b

\* the reference agents main() passes to the orchestrator, and their prompts
reference_agents ==
    <<"AnalyticalAgent", "HistoricalContextAgent", "ScienceTruthAgent">>
RefIds == 1..Len(reference_agents)
SystemPrompt(name) == <<"system prompt of", SP, name>>
FINAL_AGENT == "SynthesisAgent"
EXTENSION_PROMPT ==
    <<"You are a world class query extension algorithm capable of extending queries by writing new queries. Do not answer the queries, simply provide a list of additional queries in JSON format.">>

\* (variant: the loop keeps every response, the error texts too)
FanInReferences_keep_all(results) == [i \in 1..Len(results) |-> results[i].response]

RECURSIVE FanInReferences(_)
\* the loop of get_response over the gathered (response, search_performed)
\* pairs: the responses kept, in order
FanInReferences(results) ==
    IF results = <<>> THEN <<>>
    ELSE IF ~StartsWith(Head(results).response, <<ERROR_PREFIX>>)
         THEN <<Head(results).response>> \o FanInReferences(Tail(results))
         ELSE FanInReferences(Tail(results))

\* (variant: only the agents whose response is kept count)
FanInSearched_survivors(results) ==
    \E i \in 1..Len(results) :
       results[i].searched /\ ~StartsWith(results[i].response, <<ERROR_PREFIX>>)
\* (variant: only the first agent of the list counts)
FanInSearched_first(results) == results # <<>> /\ Head(results).searched

RECURSIVE FanInSearched(_)
\* the same loop: web_search_performed |= search_performed
FanInSearched(results) ==
    IF results = <<>> THEN FALSE
    ELSE Head(results).searched \/ FanInSearched(Tail(results))

\* if not references: the turn aborts
Aborts(references) == references = <<>>

\* ---- core memory: an insertion-ordered dict of insertion-ordered dicts
EmptyCore ==
    JDict(<< [k |-> "persona", v |-> JDict(<<>>)],
             [k |-> "user", v |-> JDict(<<>>)],
             [k |-> "scratchpad", v |-> JDict(<<>>)] >>)

\* edit_core_memory on the dict: the section is created when missing
CoreEdited(core, section, key, value) ==
    LET withSection == IF DictHas(core, section) THEN core
                       ELSE JDict(DictPut(core.items, section, JDict(<<>>)))
    IN JDict(DictPut(withSection.items, section,
                     JDict(DictPut(DictGet(withSection, section).items, key, JStr(value)))))

\* update_memory_section
MemorySection(count, nevents, core) ==
    <<"Archival Memories:", ToString(count), NL, "Conversation History Entries:",
      ToString(nevents), NL2, "Core Memory Content:", NL>> \o JsonDumpsIndent(core, 0)

\* persona.get('personality', 'No specific personality defined.')
\* (as a list: empty when persona is no dict, and no message is added)
Personality(core) ==
    IF ~DictHas(core, "persona") THEN << <<"No specific personality defined.">> >>
    ELSE IF DictGet(core, "persona").t # "dict" THEN << >>
    ELSE IF DictHas(DictGet(core, "persona"), "personality")
         THEN << <<DictGet(DictGet(core, "persona"), "personality").s>> >>
         ELSE << <<"No specific personality defined.">> >>

\* the first final_prompt of get_response, with the references, the memory
\* section and (when the direct search succeeded) the evidence
DraftPrompt(system_prompt, core, message, references, section, evidence) ==
    <<Msg("system", system_prompt)>>
    \o [i \in 1..Len(Personality(core)) |->
           Msg("system", <<"Personality:", SP>> \o Personality(core)[i])]
    \o << Msg("user", message),
          Msg("system", <<"References:", NL>> \o JoinWith(<<NL>>, references)),
          Msg("system", section) >>
    \o [i \in 1..Len(evidence) |->
           Msg("system", <<"Web Search Results:", NL>> \o evidence[i])]

\* "Based on the following results:" in search_results
DirectHit(search_results) == Contains(search_results, <<SUCCESS_MARKER>>)

\* ---- query extension
\* one element of QueryExtension.queries: a dict with string "query" and "type"
ValidItem(item) ==
    /\ item.t = "dict"
    /\ DictHas(item, "query") /\ DictGet(item, "query").t = "str"
    /\ DictHas(item, "type") /\ DictGet(item, "type").t = "str"

\* (variant: the valid items are kept when another item fails validation)
ModelValidate_lenient(d) ==
    IF ~DictHas(d, "queries") THEN [ok |-> TRUE, queries |-> <<>>]
    ELSE LET q == DictGet(d, "queries")
             valid == IF q.t = "list" THEN SelectSeq(q.items, ValidItem) ELSE <<>>
         IN [ok |-> q.t = "list" /\ Len(valid) = Len(q.items),
             queries |-> [i \in 1..Len(valid) |->
                             [query |-> <<DictGet(valid[i], "query").s>>,
                              type |-> DictGet(valid[i], "type").s]]]

\* QueryExtension.model_validate(d) for a dict d: [ok, queries]
ModelValidate(d) ==
    IF ~DictHas(d, "queries") THEN [ok |-> TRUE, queries |-> <<>>]
    ELSE LET q == DictGet(d, "queries") IN
         IF q.t = "list" /\ \A i \in 1..Len(q.items) : ValidItem(q.items[i])
         THEN [ok |-> TRUE,
               queries |-> [i \in 1..Len(q.items) |->
                               [query |-> <<DictGet(q.items[i], "query").s>>,
                                type |-> DictGet(q.items[i], "type").s]]]
         ELSE [ok |-> FALSE, queries |-> <<>>]

\* the try block of get_response around the extension output: [ok, queries];
\* ok = FALSE when one of the two except clauses ran
Validated(j) ==
    IF ~j.ok THEN [ok |-> FALSE, queries |-> <<>>]
    ELSE IF j.v.t = "dict" THEN ModelValidate(j.v)
    ELSE IF j.v.t = "list"
         THEN ModelValidate(JDict(<<[k |-> "queries", v |-> j.v]>>))
    ELSE [ok |-> FALSE, queries |-> <<>>]
ParseExtension(extension_output) == Validated(JsonLoads(extension_output))

\* ---- retrieval
RETRIEVE_MAX == 3
\* k=min(3, max(1, self.document_count))
TurnK(count) == Min(RETRIEVE_MAX, Max(1, count))
SEARCH_K == 5
\* the k search_archival_memory asks for
SearchK(count) == SEARCH_K

\* what the index may return for k on n chunks: min(k, n) distinct positions,
\* best first.  The order is the index's own; the orders drawn here are the
\* insertion order and its reverse, each started at any chunk.
Orders(n) ==
    {[i \in 1..n |-> ((i + s - 1) % n) + 1] : s \in 0..(n - 1)}
    \cup {[i \in 1..n |-> ((s - i + n) % n) + 1] : s \in 0..(n - 1)}
Rankings(n, k) == {SubSeq(o, 1, Min(k, n)) : o \in Orders(n)}

CONTEXT_HEADER == <<"Consider the following context:", NL, "==========Context===========", NL>>
NO_DOCUMENTS == <<"No relevant documents found in archival memory.", NL2>>
QUESTION_HEADER == <<NL, "======================", NL, "Question:", SP>>

RECURSIVE AppendAll(_, _)
\* for doc in documents: prompt += doc["content"] + "\n\n"
AppendAll(prompt, docs) ==
    IF docs = <<>> THEN prompt
    ELSE AppendAll(prompt \o Head(docs) \o <<NL2>>, Tail(docs))

RECURSIVE AppendNew(_, _)
\* for doc in documents: if doc["content"] not in prompt: prompt += ...
AppendNew(prompt, docs) ==
    IF docs = <<>> THEN prompt
    ELSE IF ~Contains(prompt, Head(docs))
         THEN AppendNew(prompt \o Head(docs) \o <<NL2>>, Tail(docs))
         ELSE AppendNew(prompt, Tail(docs))

RECURSIVE AppendQueries(_, _)
\* the loop over queries.queries, given the documents retrieved for each
AppendQueries(prompt, docsPerQuery) ==
    IF docsPerQuery = <<>> THEN prompt
    ELSE AppendQueries(AppendNew(prompt, Head(docsPerQuery)), Tail(docsPerQuery))

\* the retrieval context of get_response
ContextPrompt(message, docs, docsPerQuery) ==
    AppendQueries(IF docs # <<>> THEN AppendAll(CONTEXT_HEADER, docs)
                  ELSE CONTEXT_HEADER \o NO_DOCUMENTS,
                  docsPerQuery)
    \o QUESTION_HEADER \o message

\* the final_prompt the synthesis call is given
SynthesisPrompt(system_prompt, prompt) ==
    <<Msg("system", system_prompt), Msg("user", prompt)>>

\* ---- documents
CHUNK_SIZE == 512
\* the length in characters a token stands for
TokenLen(tok) == IF tok = "para-A" THEN 400 ELSE Len(tok)
RECURSIVE TextLen(_)
TextLen(text) == IF text = <<>> THEN 0 ELSE TokenLen(Head(text)) + TextLen(Tail(text))

RECURSIVE Pieces(_, _)
\* the text cut before every "\n\n" (keep_separator=True): the pieces, acc the
\* piece being read
Pieces(text, acc) ==
    IF text = <<>> THEN (IF acc = <<>> THEN <<>> ELSE <<acc>>)
    ELSE IF Head(text) = NL2 /\ acc # <<>>
         THEN <<acc>> \o Pieces(Tail(text), <<NL2>>)
         ELSE Pieces(Tail(text), Append(acc, Head(text)))

RECURSIVE Merge(_, _)
\* pieces joined greedily while the chunk stays within chunk_size
Merge(pieces, acc) ==
    IF pieces = <<>> THEN (IF acc = <<>> THEN <<>> ELSE <<acc>>)
    ELSE IF acc # <<>> /\ TextLen(acc) + TextLen(Head(pieces)) > CHUNK_SIZE
         THEN <<acc>> \o Merge(Tail(pieces), Head(pieces))
         ELSE Merge(Tail(pieces), acc \o Head(pieces))

RECURSIVE Stripped(_)
\* every chunk trimmed of white space, a chunk that is empty then left out
\* (the splitter's strip_whitespace default)
Stripped(chunks) ==
    IF chunks = <<>> THEN <<>>
    ELSE IF Strip(Head(chunks)) = <<>> THEN Stripped(Tail(chunks))
    ELSE <<Strip(Head(chunks))>> \o Stripped(Tail(chunks))

\* self.splitter.split_text(content)
SplitText(content) == Stripped(Merge(Pieces(content, <<>>), <<>>))

\* file_path.split('.')[-1].lower(), a path being its dot-separated parts
Lower(part) ==
    CASE part = "TXT" -> "txt" [] part = "PDF" -> "pdf" [] part = "CSV" -> "csv"
      [] OTHER -> part
FileExtension(path) == Lower(path[Len(path)])
\* the path as it is written, its parts joined by dots
PathText(path) == JoinWith(<<".">>, [i \in 1..Len(path) |-> <<path[i]>>])

\* the files of the model: what reading each path yields (the text, or an
\* exception when the file is missing); the notes repeat one paragraph
Paths == { <<"notes", "TXT">>, <<"blank", "txt">>, <<"page", "md">>, <<"gone", "txt">> }
FileRead(path) ==
    CASE path = <<"notes", "TXT">> ->
            [raised |-> FALSE, content |-> <<"para-A", NL2, "para-A">>]
      [] path = <<"blank", "txt">> -> [raised |-> FALSE, content |-> <<SP, NL>>]
      [] OTHER -> [raised |-> TRUE, content |-> <<>>]
\* str(e) of the exception open() raises for a missing file
FileError(path) ==
    <<"[Errno 2] No such file or directory:", SP, "'">> \o PathText(path) \o <<"'">>

\* (variant: only the first split is added)
AddAll_first(index, splits) ==
    IF splits = <<>> THEN index ELSE Append(index, Head(splits))

RECURSIVE AddAll(_, _)
\* rag.add_document for every split
AddAll(index, splits) ==
    IF splits = <<>> THEN index ELSE AddAll(Append(index, Head(splits)), Tail(splits))

\* ------------------------------------------------------------------ state
\* the arguments the orchestrator's methods are called with.  The commands of
\* the model are the methods themselves, as a caller of the class uses them:
\* the shell of main() hands them the rest of the line it read, which for the
\* archival and core commands still starts with the word after the verb.
Inputs == { <<"q1">>, <<>> }
Contents == { <<"doc">>, <<SP>> }
ExtCompletions ==
    { <<LBRACE, "\"queries\"", COLON, LBRACK, LBRACE, "\"query\"", COLON, "\"doc\"", COMMA,
        "\"type\"", COLON, "\"t\"", RBRACE, CLOSE, RBRACE>>,
      <<LBRACK, LBRACE, "\"query\"", COLON, SP, "\"q1\"", COMMA, SP, "\"type\"", COLON, SP,
        "\"t\"", RBRACE, COMMA, SP, LBRACE, "\"query\"", COLON, SP, "\"doc\"", COMMA, SP,
        "\"type\"", COLON, SP, "\"t\"", RBRACE, CLOSE>>,
      <<LBRACE, "\"note\"", COLON, SP, "\"q1\"", RBRACE>>,
      <<LBRACK, LBRACE, "\"query\"", COLON, SP, "\"q1\"", COMMA, SP, "\"type\"", COLON, SP,
        "\"t\"", RBRACE, COMMA, SP, LBRACE, "\"query\"", COLON, SP, "\"doc\"", RBRACE, CLOSE>>,
      <<"1">>,
      <<"ans", COLON, SP, LBRACK, "\"q1\"">>,
      <<SEARCH_MARKER, "q1">> }
SynthCompletions == { <<"final">>, ERR_TEXT }
Models == {"model-a", "model-b"}
CoreEdits ==
    { <<"persona", "tone", "formal">>, <<"persona", "personality", "formal">>,
      <<"misc", "tone", "formal">> }

\* how many state-changing commands (turns included) one session issues
MaxSteps == 3

VARIABLES
    archive,            \* self.rag: the chunks of the archival index, in insertion order
    document_count,     \* self.document_count
    events,             \* self.agent_event_memory: the (role, message) events
    core_memory,        \* self.core_memory
    agent_core,         \* self.agent_core_memory.core_memory
    core_file,          \* the text of MemoryAssistant/core_memory.json
    web_search_enabled, \* self.web_search_enabled
    primary_model,      \* self.primary_model
    final_model,        \* self.final_agent.model
    reference_models,   \* agent.model of each reference agent
    pc,                 \* where get_response stands: "idle", "fanout", "expand",
                        \* "synth", or "raised" (an exception left it)
    input,              \* input_message of the turn
    tasks,              \* the generate_response call of each reference agent
    ext,                \* the generate_response call of the query extension agent
    wsp,                \* web_search_performed of get_response
    final_prompt,       \* final_prompt of get_response
    ret,                \* what the last command returned
    turn,               \* the record of the turn: what it did, for the properties
    retrievals,         \* the requests the last command made to the index
    steps               \* state-changing commands issued so far

vars == <<archive, document_count, events, core_memory, agent_core, core_file,
          web_search_enabled, primary_model, final_model, reference_models, pc,
          input, tasks, ext,
          wsp, final_prompt, ret, turn, retrievals, steps>>
memory == <<archive, document_count, events, core_memory, agent_core, core_file>>
config == <<web_search_enabled, primary_model, final_model, reference_models>>
locals == <<input, tasks, ext, wsp, final_prompt>>

NoRet == [op |-> "none", value |-> <<>>, flag |-> FALSE]
Status(op, text) == [op |-> op, value |-> text, flag |-> FALSE]
NoTurn ==
    [chunks0 |-> 0, events0 |-> 0, outcome |-> "none", ref_searched |-> FALSE,
     direct_calls |-> 0, direct_hit |-> FALSE, evidence |-> <<>>,
     ext_searched |-> FALSE,
     parse_ok |-> TRUE, nqueries |-> 0, docs |-> <<>>, qdocs |-> <<>>, synth_calls |-> 0,
     phases |-> <<>>]
IdleTasks == [a \in RefIds |-> IdleTask]

Init ==
    /\ archive = <<>>
    /\ document_count = 0
    /\ events = <<>>
    /\ core_file = JsonDumps(EmptyCore)
    /\ core_memory = JsonLoads(JsonDumps(EmptyCore)).v
    /\ agent_core = JsonLoads(JsonDumps(EmptyCore)).v
    /\ web_search_enabled = TRUE
    /\ primary_model = "model-a"
    /\ final_model = "model-a"
    /\ reference_models = [a \in RefIds |-> "model-r"]
    /\ pc = "idle"
    /\ input = <<>>
    /\ tasks = IdleTasks
    /\ ext = IdleTask
    /\ wsp = FALSE
    /\ final_prompt = <<>>
    /\ ret = NoRet
    /\ turn = NoTurn
    /\ retrievals = <<>>
    /\ steps = 0

\* a command of the shell starts: the session is between turns.  MaxSteps
\* bounds the session, a turn weighing two commands.
Budget(cost) ==
    /\ pc = "idle"
    /\ steps + cost <= MaxSteps
    /\ steps' = steps + cost
    /\ retrievals' = <<>>
Command == Budget(1)

\* a command that only reads
Query ==
    /\ pc = "idle"
    /\ turn' = NoTurn
    /\ UNCHANGED steps

\* ---- memory commands
\* self.agent_core_memory.load_core_memory(self.core_memory_file)
LoadedCore(file) == JsonLoads(file).v

load_core_memory ==
    /\ Query
    /\ retrievals' = <<>>
    /\ ret' = [op |-> "load_core_memory", value |-> LoadedCore(core_file), flag |-> FALSE]
    /\ UNCHANGED <<memory, config, pc, locals>>

clear_core_memory ==
    /\ Command
    /\ turn' = NoTurn
    /\ agent_core' = EmptyCore
    /\ core_memory' = EmptyCore
    /\ core_file' = JsonDumpsIndent(EmptyCore, 0)
    /\ ret' = Status("clear_core_memory", <<"Core memory cleared successfully.">>)
    /\ UNCHANGED <<archive, document_count, events, config, pc, locals>>

\* update_core_memory belongs to the memory library: whether it also writes the
\* file is its choice (written); edit_core_memory itself never writes it.
edit_core_memory(section, key, value, written) ==
    /\ Command
    /\ turn' = NoTurn
    /\ core_memory' = CoreEdited(core_memory, section, key, value)
    /\ agent_core' = core_memory'
    /\ core_file' = IF written THEN JsonDumps(core_memory') ELSE core_file
    /\ ret' = Status("edit_core_memory",
                     <<"Core memory updated:", SP, section, ".", key, SP, "=", SP, value>>)
    /\ UNCHANGED <<archive, document_count, events, config, pc, locals>>

add_to_archival_memory(content) ==
    /\ Command
    /\ turn' = NoTurn
    /\ IF Strip(content) # <<>>
       THEN /\ archive' = Append(archive, content)
            /\ document_count' = document_count + 1
            /\ ret' = Status("add_to_archival_memory",
                             <<"Added to archival memory:", SP>> \o content)
       ELSE /\ UNCHANGED <<archive, document_count>>
            /\ ret' = Status("add_to_archival_memory",
                             <<"Failed to add empty content to archival memory.">>)
    /\ UNCHANGED <<events, core_memory, agent_core, core_file, config, pc, locals>>

\* what rag.clear_documents() may do: return, or raise with some text
ClearOutcomes == { [raised |-> FALSE, text |-> <<>>],
                   [raised |-> TRUE, text |-> <<"index error">>] }

clear_archival_memory(cleared) ==
    /\ Command
    /\ turn' = NoTurn
    /\ IF cleared.raised
       THEN /\ UNCHANGED <<archive, document_count>>
            /\ ret' = Status("clear_archival_memory",
                             <<"Error clearing archival memory:", SP>> \o cleared.text)
       ELSE /\ archive' = <<>>
            /\ document_count' = 0
            /\ ret' = Status("clear_archival_memory",
                             <<"Archival memory cleared successfully.">>)
    /\ UNCHANGED <<events, core_memory, agent_core, core_file, config, pc, locals>>

\* (variant: the chunks that hold the old content are rewritten in place)
edit_archival_memory_in_place(old_content, new_content) ==
    /\ Command
    /\ turn' = NoTurn
    /\ archive' = IF \E i \in 1..Len(archive) : archive[i] = old_content
                  THEN [i \in 1..Len(archive) |->
                           IF archive[i] = old_content THEN new_content ELSE archive[i]]
                  ELSE Append(archive, new_content)
    /\ document_count' = document_count + 1
    /\ ret' = Status("edit_archival_memory",
                     <<"New content '">> \o new_content \o
                     <<"' added to archival memory. Note: Old content not removed due to limitations of the current implementation.">>)
    /\ UNCHANGED <<events, core_memory, agent_core, core_file, config, pc, locals>>

edit_archival_memory(old_content, new_content) ==
    /\ Command
    /\ turn' = NoTurn
    /\ archive' = Append(archive, new_content)
    /\ document_count' = document_count + 1
    /\ ret' = Status("edit_archival_memory",
                     <<"New content '">> \o new_content \o
                     <<"' added to archival memory. Note: Old content not removed due to limitations of the current implementation.">>)
    /\ UNCHANGED <<events, core_memory, agent_core, core_file, config, pc, locals>>

\* one request to the index: the k asked for, with the counts at that moment
Request(k) == [k |-> k, count |-> document_count, held |-> Len(archive)]

\* the return value is the list of documents the index gives for the query
search_archival_memory(query) ==
    /\ Query
    /\ retrievals' = <<Request(SearchK(document_count))>>
    /\ \E ranking \in (IF archive = <<>> THEN {<<>>}
                       ELSE Rankings(Len(archive), SearchK(document_count))) :
          ret' = [op |-> "search_archival_memory",
                  value |-> [i \in 1..Len(ranking) |-> archive[ranking[i]]],
                  flag |-> FALSE]
    /\ UNCHANGED <<memory, config, pc, locals>>

upload_document(file_path) ==
    /\ Command
    /\ turn' = NoTurn
    /\ IF FileExtension(file_path) \notin {"txt", "pdf", "csv"}
       THEN /\ ret' = Status("upload_document",
                             <<"Unsupported file type:", SP, FileExtension(file_path)>>)
            /\ UNCHANGED <<archive, document_count>>
       ELSE IF FileRead(file_path).raised
       THEN /\ ret' = Status("upload_document",
                             <<"An error occurred while processing", SP>>
                             \o PathText(file_path) \o <<":", SP>>
                             \o FileError(file_path))
            /\ UNCHANGED <<archive, document_count>>
       ELSE IF Strip(FileRead(file_path).content) = <<>>
       THEN /\ ret' = Status("upload_document", <<"The file is empty or could not be read.">>)
            /\ UNCHANGED <<archive, document_count>>
       ELSE /\ archive' = AddAll(archive, SplitText(FileRead(file_path).content))
            /\ document_count' = document_count + Len(SplitText(FileRead(file_path).content))
            /\ ret' = Status("upload_document",
                             <<"Document", SP>> \o PathText(file_path) \o
                             <<SP, "uploaded and processed successfully. Added", SP,
                               ToString(Len(SplitText(FileRead(file_path).content))),
                               SP, "chunks to archival memory.">>)
    /\ UNCHANGED <<events, core_memory, agent_core, core_file, config, pc, locals>>

toggle_web_search(enabled) ==
    /\ Command
    /\ turn' = NoTurn
    /\ web_search_enabled' = enabled
    /\ ret' = Status("toggle_web_search",
                     <<"Web search", SP, IF enabled THEN "enabled" ELSE "disabled">>)
    /\ UNCHANGED <<memory, primary_model, final_model, reference_models, pc, locals>>

\* (variant: the setter gives the model to the reference agents too)
set_model_of_all(value) ==
    /\ Command
    /\ turn' = NoTurn
    /\ primary_model' = value
    /\ final_model' = value
    /\ reference_models' = [a \in RefIds |-> value]
    /\ ret' = NoRet
    /\ UNCHANGED <<memory, web_search_enabled, pc, locals>>

\* the setter of the model property
set_model(value) ==
    /\ Command
    /\ turn' = NoTurn
    /\ primary_model' = value
    /\ final_model' = value
    /\ ret' = NoRet
    /\ UNCHANGED <<memory, web_search_enabled, reference_models, pc, locals>>

\* ---- the turn: get_response, one action per stretch between two awaits
\* update_memory: the event added, and the document added to the index
\* (variant: the log is started afresh with the new event)
update_memory_event_restarted(log, message, role) == <<[role |-> role, message |-> message]>>
update_memory_event(log, message, role) == Append(log, [role |-> role, message |-> message])
\* (variant: the document is not added to the index)
update_memory_rag_skipped(index, message) == index
update_memory_rag(index, message) == Append(index, message)

\* the (response, search_performed) pairs asyncio.gather returns, in list order
GatherResults ==
    [a \in RefIds |-> [response |-> tasks[a].response, searched |-> tasks[a].searched]]

Phase(names) == turn.phases \o names

\* update_memory(input_message, Roles.user), then every reference agent's
\* generate_response runs to its first completion call
StartTurn(message) ==
    /\ Budget(2)
    /\ input' = message
    /\ events' = update_memory_event(events, message, "user")
    /\ archive' = update_memory_rag(archive, message)
    /\ tasks' = [a \in RefIds |-> TaskStart(SystemPrompt(reference_agents[a]), message)]
    /\ pc' = "fanout"
    /\ turn' = [NoTurn EXCEPT !.chunks0 = Len(archive), !.events0 = Len(events),
                              !.outcome = "running", !.phases = <<"ingest", "fan-out">>]
    /\ ret' = NoRet
    /\ UNCHANGED <<document_count, core_memory, agent_core, core_file, config,
                   ext, wsp, final_prompt>>

\* an exception leaves get_response: nothing in it handles one
Raise ==
    /\ pc' = "raised"
    /\ ret' = [op |-> "get_response", value |-> <<"exception">>, flag |-> FALSE]

\* (variant: the text an agent returns is shown to the agents still waiting
\* for their first completion)
AgentReturn_overheard(a, text, ddgs) ==
    /\ pc = "fanout"
    /\ tasks[a].st \in {"call1", "call2"}
    /\ ddgs \in (IF SearchRound(tasks[a], text) THEN DdgsOutcomes ELSE {NoSearch})
    /\ tasks' = [b \in RefIds |->
                    IF b = a THEN TaskReturn(tasks[a], text, ddgs)
                    ELSE IF tasks[b].st = "call1"
                         THEN [tasks[b] EXCEPT !.messages = Append(@, Msg("assistant", text))]
                         ELSE tasks[b]]
    /\ IF tasks'[a].st = "raised"
       THEN /\ Raise
            /\ turn' = [turn EXCEPT !.outcome = "raised"]
       ELSE UNCHANGED <<pc, ret, turn>>
    /\ UNCHANGED <<memory, config, input, ext, wsp, final_prompt, retrievals, steps>>

\* a completion call of reference agent a returns text; ddgs is what the search
\* does when the text asks for one
AgentReturn(a, text, ddgs) ==
    /\ pc = "fanout"
    /\ tasks[a].st \in {"call1", "call2"}
    /\ ddgs \in (IF SearchRound(tasks[a], text) THEN DdgsOutcomes ELSE {NoSearch})
    /\ tasks' = [tasks EXCEPT ![a] = TaskReturn(tasks[a], text, ddgs)]
    /\ IF tasks'[a].st = "raised"
       THEN /\ Raise
            /\ turn' = [turn EXCEPT !.outcome = "raised"]
       ELSE UNCHANGED <<pc, ret, turn>>
    /\ UNCHANGED <<memory, config, input, ext, wsp, final_prompt, retrievals, steps>>

\* (variant: a race, the first agent to return ends the wait)
AllReturned_first == \E a \in RefIds : tasks[a].st = "done"
AllReturned == \A a \in RefIds : tasks[a].st = "done"

\* (variant: the early return leaves a note in the scratchpad)
FanInAbort_noting ==
    /\ pc = "fanout"
    /\ AllReturned
    /\ Aborts(FanInReferences(GatherResults))
    /\ pc' = "idle"
    /\ ret' = [op |-> "get_response", value |-> ALL_FAILED, flag |-> FALSE]
    /\ turn' = [turn EXCEPT !.outcome = "aborted", !.phases = Phase(<<"fan-in">>),
                            !.ref_searched = \E a \in RefIds : tasks[a].searched]
    /\ input' = <<>>
    /\ tasks' = IdleTasks
    /\ core_memory' = CoreEdited(core_memory, "scratchpad", "note", "q1")
    /\ UNCHANGED <<archive, document_count, events, agent_core, core_file, config,
                   ext, wsp, final_prompt, retrievals, steps>>

\* (variant: the early return reports the searches of the dropped agents)
FanInAbort_reporting ==
    /\ pc = "fanout"
    /\ AllReturned
    /\ Aborts(FanInReferences(GatherResults))
    /\ pc' = "idle"
    /\ ret' = [op |-> "get_response", value |-> ALL_FAILED,
               flag |-> FanInSearched(GatherResults)]
    /\ turn' = [turn EXCEPT !.outcome = "aborted", !.phases = Phase(<<"fan-in">>),
                            !.ref_searched = \E a \in RefIds : tasks[a].searched]
    /\ input' = <<>>
    /\ tasks' = IdleTasks
    /\ UNCHANGED <<memory, config, ext, wsp, final_prompt, retrievals, steps>>

\* gather has returned and no reference is left: the early return
FanInAbort ==
    /\ pc = "fanout"
    /\ AllReturned
    /\ Aborts(FanInReferences(GatherResults))
    /\ pc' = "idle"
    /\ ret' = [op |-> "get_response", value |-> ALL_FAILED, flag |-> FALSE]
    /\ turn' = [turn EXCEPT !.outcome = "aborted", !.phases = Phase(<<"fan-in">>),
                            !.ref_searched = \E a \in RefIds : tasks[a].searched]
    /\ input' = <<>>
    /\ tasks' = IdleTasks
    /\ UNCHANGED <<memory, config, ext, wsp, final_prompt, retrievals, steps>>

\* (variant: the raw input is searched only when no reference agent searched)
FanInProceed_unless_searched(ddgs) ==
    LET enabled == web_search_enabled /\ ~FanInSearched(GatherResults) IN
    /\ pc = "fanout"
    /\ AllReturned
    /\ ~Aborts(FanInReferences(GatherResults))
    /\ ddgs \in (IF enabled THEN DdgsOutcomes ELSE {NoSearch})
    /\ LET references == FanInReferences(GatherResults)
           evidence == SearchWeb(ddgs.hrefs)
           hit == enabled /\ DirectHit(evidence)
           seen == [turn EXCEPT !.ref_searched = \E a \in RefIds : tasks[a].searched,
                                !.direct_calls = IF enabled THEN 1 ELSE 0]
       IN IF ddgs.raised
          THEN /\ Raise
               /\ turn' = [seen EXCEPT !.outcome = "raised",
                                       !.phases = Phase(<<"fan-in", "direct augmentation">>)]
               /\ UNCHANGED <<wsp, final_prompt, ext>>
          ELSE /\ wsp' = (FanInSearched(GatherResults) \/ hit)
               /\ final_prompt' =
                      DraftPrompt(SystemPrompt(FINAL_AGENT), core_memory, input, references,
                                  MemorySection(document_count, Len(events), core_memory),
                                  IF hit THEN <<evidence>> ELSE <<>>)
               /\ ext' = TaskStart(EXTENSION_PROMPT,
                                   <<"Consider the following query:", SP>> \o input)
               /\ pc' = "expand"
               /\ turn' = [seen EXCEPT !.direct_hit = hit,
                                       !.evidence = IF enabled THEN evidence
                                                    ELSE <<>>,
                                       !.phases = Phase(<<"fan-in", "direct augmentation",
                                                          "query expansion">>)]
               /\ UNCHANGED ret
    /\ tasks' = IdleTasks
    /\ UNCHANGED <<memory, config, input, retrievals, steps>>

\* gather has returned with a reference: fan-in, the first final_prompt, the
\* search on the raw input, and the first completion call of the extension agent
FanInProceed(ddgs) ==
    /\ pc = "fanout"
    /\ AllReturned
    /\ ~Aborts(FanInReferences(GatherResults))
    /\ ddgs \in (IF web_search_enabled THEN DdgsOutcomes ELSE {NoSearch})
    /\ LET references == FanInReferences(GatherResults)
           evidence == SearchWeb(ddgs.hrefs)
           hit == web_search_enabled /\ DirectHit(evidence)
           seen == [turn EXCEPT !.ref_searched = \E a \in RefIds : tasks[a].searched,
                                !.direct_calls = IF web_search_enabled THEN 1 ELSE 0]
       IN IF ddgs.raised
          THEN /\ Raise
               /\ turn' = [seen EXCEPT !.outcome = "raised",
                                       !.phases = Phase(<<"fan-in", "direct augmentation">>)]
               /\ UNCHANGED <<wsp, final_prompt, ext>>
          ELSE /\ wsp' = (FanInSearched(GatherResults) \/ hit)
               /\ final_prompt' =
                      DraftPrompt(SystemPrompt(FINAL_AGENT), core_memory, input, references,
                                  MemorySection(document_count, Len(events), core_memory),
                                  IF hit THEN <<evidence>> ELSE <<>>)
               /\ ext' = TaskStart(EXTENSION_PROMPT,
                                   <<"Consider the following query:", SP>> \o input)
               /\ pc' = "expand"
               /\ turn' = [seen EXCEPT !.direct_hit = hit,
                                       !.evidence = IF web_search_enabled THEN evidence
                                                    ELSE <<>>,
                                       !.phases = Phase(<<"fan-in", "direct augmentation",
                                                          "query expansion">>)]
               /\ UNCHANGED ret
    /\ tasks' = IdleTasks
    /\ UNCHANGED <<memory, config, input, retrievals, steps>>

\* the first completion of the extension agent asks for a search
ExtSearchRound(text, ddgs) ==
    /\ pc = "expand"
    /\ SearchRound(ext, text)
    /\ ext' = TaskReturn(ext, text, ddgs)
    /\ IF ext'.st = "raised"
       THEN /\ Raise
            /\ turn' = [turn EXCEPT !.outcome = "raised", !.ext_searched = TRUE]
       ELSE /\ turn' = [turn EXCEPT !.ext_searched = TRUE]
            /\ UNCHANGED <<pc, ret>>
    /\ UNCHANGED <<memory, config, input, tasks, wsp, final_prompt, retrievals, steps>>

\* the documents at the ranked positions
Documents(index, ranking) == [i \in 1..Len(ranking) |-> index[ranking[i]]]

\* (variant: the context is appended to the draft instead of replacing it)
RetrieveAndAsk_on_draft(parsed, k, ranks) ==
    \E r0 \in ranks : \E rq \in [1..Len(parsed.queries) -> ranks] :
       /\ final_prompt' =
              final_prompt
              \o << Msg("user",
                        ContextPrompt(input, Documents(archive, r0),
                                      [j \in 1..Len(parsed.queries) |->
                                          Documents(archive, rq[j])])) >>
       /\ retrievals' = [j \in 1..(1 + Len(parsed.queries)) |-> Request(k)]
       /\ turn' = [turn EXCEPT !.parse_ok = parsed.ok,
                               !.nqueries = Len(parsed.queries),
                               !.docs = Documents(archive, r0),
                               !.qdocs = [j \in 1..Len(parsed.queries) |->
                                             Documents(archive, rq[j])],
                               !.synth_calls = @ + 1,
                               !.phases = Phase(<<"multi-query retrieval",
                                                  "context assembly", "synthesize">>)]

\* the rest of get_response once the expansion is parsed: the index is asked
\* for the input (ranking r0) and for every query (rankings rq), the context is
\* assembled and the synthesis call is made
RetrieveAndAsk(parsed, k, ranks) ==
    \E r0 \in ranks : \E rq \in [1..Len(parsed.queries) -> ranks] :
       /\ final_prompt' =
              SynthesisPrompt(SystemPrompt(FINAL_AGENT),
                              ContextPrompt(input, Documents(archive, r0),
                                            [j \in 1..Len(parsed.queries) |->
                                                Documents(archive, rq[j])]))
       /\ retrievals' = [j \in 1..(1 + Len(parsed.queries)) |-> Request(k)]
       /\ turn' = [turn EXCEPT !.parse_ok = parsed.ok,
                               !.nqueries = Len(parsed.queries),
                               !.docs = Documents(archive, r0),
                               !.qdocs = [j \in 1..Len(parsed.queries) |->
                                             Documents(archive, rq[j])],
                               !.synth_calls = @ + 1,
                               !.phases = Phase(<<"multi-query retrieval",
                                                  "context assembly", "synthesize">>)]

\* the extension agent returns its output
ExtFinish(text) ==
    /\ pc = "expand"
    /\ ext.st \in {"call1", "call2"}
    /\ ~SearchRound(ext, text)
    /\ RetrieveAndAsk(ParseExtension(TaskReturn(ext, text, NoSearch).response),
                      TurnK(document_count),
                      Rankings(Len(archive), TurnK(document_count)))
    /\ pc' = "synth"
    /\ ext' = IdleTask
    /\ UNCHANGED <<memory, config, input, tasks, wsp, ret, steps>>

\* (variant: a synthesis call that returns an error text is made once more)
SynthReturn_retrying(final_response) ==
    /\ pc = "synth"
    /\ IF StartsWith(final_response, <<ERROR_PREFIX>>) /\ turn.synth_calls < 2
       THEN /\ turn' = [turn EXCEPT !.synth_calls = @ + 1,
                                    !.phases = Phase(<<"synthesize">>)]
            /\ UNCHANGED <<archive, events, ret, pc, input, wsp, final_prompt>>
       ELSE /\ events' = update_memory_event(events, final_response, "assistant")
            /\ archive' = update_memory_rag(archive, final_response)
            /\ ret' = [op |-> "get_response", value |-> final_response, flag |-> wsp]
            /\ pc' = "idle"
            /\ turn' = [NoTurn EXCEPT !.chunks0 = turn.chunks0, !.events0 = turn.events0,
                                      !.outcome = "ok", !.synth_calls = turn.synth_calls,
                                      !.phases = Phase(<<"commit">>)]
            /\ input' = <<>>
            /\ wsp' = FALSE
            /\ final_prompt' = <<>>
    /\ UNCHANGED <<document_count, core_memory, agent_core, core_file, config,
                   tasks, ext, retrievals, steps>>

\* the synthesis call returns: the assistant turn is committed and the turn ends
SynthReturn(final_response) ==
    /\ pc = "synth"
    /\ events' = update_memory_event(events, final_response, "assistant")
    /\ archive' = update_memory_rag(archive, final_response)
    /\ ret' = [op |-> "get_response", value |-> final_response, flag |-> wsp]
    /\ pc' = "idle"
    /\ turn' = [NoTurn EXCEPT !.chunks0 = turn.chunks0, !.events0 = turn.events0,
                              !.outcome = "ok", !.synth_calls = turn.synth_calls,
                              !.phases = Phase(<<"commit">>)]
    /\ input' = <<>>
    /\ wsp' = FALSE
    /\ final_prompt' = <<>>
    /\ UNCHANGED <<document_count, core_memory, agent_core, core_file, config,
                   tasks, ext, retrievals, steps>>

Next ==
    \/ load_core_memory
    \/ clear_core_memory
    \/ \E e \in CoreEdits, written \in BOOLEAN : edit_core_memory(e[1], e[2], e[3], written)
    \/ \E content \in Contents : add_to_archival_memory(content)
    \/ \E cleared \in ClearOutcomes : clear_archival_memory(cleared)
    \/ \E old \in Contents, new \in Contents : edit_archival_memory(old, new)
    \/ \E query \in Inputs : search_archival_memory(query)
    \/ \E path \in Paths : upload_document(path)
    \/ \E enabled \in BOOLEAN : toggle_web_search(enabled)
    \/ \E value \in Models : set_model(value)
    \/ \E message \in Inputs : StartTurn(message)
    \/ \E a \in RefIds, text \in RefCompletions, ddgs \in DdgsOutcomes : AgentReturn(a, text, ddgs)
    \/ FanInAbort
    \/ \E ddgs \in DdgsOutcomes : FanInProceed(ddgs)
    \/ \E text \in ExtCompletions, ddgs \in DdgsOutcomes : ExtSearchRound(text, ddgs)
    \/ \E text \in ExtCompletions : ExtFinish(text)
    \/ \E final_response \in SynthCompletions : SynthReturn(final_response)

Spec == Init /\ [][Next]_vars

\* ============================================================= properties

\* ---- C1
\* C1 as stated: a turn that returns a synthesised answer leaves the archival
\* index with two chunks more than it had before the turn, and a turn that
\* aborts at fan-in leaves it with as many chunks as before.
C1_AbortAddsNothing ==
    /\ turn.outcome = "ok" => Len(archive) = turn.chunks0 + 2
    /\ turn.outcome = "aborted" => Len(archive) = turn.chunks0

\* C1 as the code has it: the user message is added to the index before the
\* fan-out, so a successful turn adds two chunks (input and answer) and an
\* aborted turn adds one (the input).
C1_ChunksPerTurn ==
    /\ turn.outcome = "ok" => Len(archive) = turn.chunks0 + 2
    /\ turn.outcome = "aborted" => Len(archive) = turn.chunks0 + 1

\* an aborted turn has ended with the user message as the one chunk added
C1_AbortedTurn ==
    /\ turn.outcome = "aborted"
    /\ Len(archive) = turn.chunks0 + 1
    /\ archive[Len(archive)] \in Inputs

\* ---- C2
C2_AllDropped ==
    /\ pc = "fanout"
    /\ AllReturned
    /\ \A a \in RefIds : StartsWith(tasks[a].response, <<ERROR_PREFIX>>)

\* C2: when every reference response begins with "Error:", get_response
\* returns ("Error: All reference agents failed to generate responses.", False)
\* without a synthesis call and without committing an assistant turn: the
\* event log and the index keep the user turn as their last addition.
C2_AllDroppedAborts ==
    [][ (C2_AllDropped /\ pc' # pc) =>
           /\ pc' = "idle"
           /\ ret' = [op |-> "get_response", value |-> ALL_FAILED, flag |-> FALSE]
           /\ turn'.outcome = "aborted"
           /\ turn'.synth_calls = 0
           /\ ~ \E i \in 1..Len(turn'.phases) : turn'.phases[i] \in {"synthesize", "commit"}
           /\ events' = events /\ archive' = archive
           /\ Len(events') = turn'.events0 + 1
           /\ events'[Len(events')] = [role |-> "user", message |-> input] ]_vars

\* the abort has happened: three error responses were gathered and dropped
C2_Aborted ==
    /\ turn.outcome = "aborted"
    /\ ret.value = ALL_FAILED /\ ~ret.flag
    /\ turn.phases = <<"ingest", "fan-out", "fan-in">>

\* ---- C3
\* the text between the first marker and the first "]" after it, without the
\* white space around it
C3_Between(raw) ==
    LET first == CHOOSE i \in 1..Len(raw) :
                     raw[i] = SEARCH_MARKER /\ \A j \in 1..(i - 1) : raw[j] # SEARCH_MARKER
        rest == SubSeq(raw, first + 1, Len(raw))
        closes == {j \in 1..Len(rest) : rest[j] = CLOSE}
        stop == IF closes = {} THEN Len(rest)
                ELSE (CHOOSE j \in closes : \A c \in closes : j <= c) - 1
        inner == SubSeq(rest, 1, stop)
        solid == {j \in 1..Len(inner) : inner[j] \notin WS}
    IN IF solid = {} THEN <<>>
       ELSE SubSeq(inner, CHOOSE j \in solid : \A c \in solid : j <= c,
                          CHOOSE j \in solid : \A c \in solid : j >= c)

C3_Marked(raw) == \E i \in 1..Len(raw) : raw[i] = SEARCH_MARKER

\* what one generate_response call may have done, given its first completion
C3_OneRound(task) ==
    /\ task.st = "call1" => task.ncalls = 1 /\ task.queries = <<>>
    /\ task.st = "call2" =>
          /\ C3_Marked(task.raw)
          /\ task.ncalls = 2 /\ task.queries = <<C3_Between(task.raw)>>
    /\ task.st = "done" =>
          IF C3_Marked(task.raw)
          THEN task.ncalls = 2 /\ task.queries = <<C3_Between(task.raw)>> /\ task.searched
          ELSE task.ncalls = 1 /\ task.queries = <<>> /\ ~task.searched

\* C3: a generate_response call whose first completion contains "[SEARCH:"
\* makes exactly one web search, with the trimmed text between the marker and
\* the next "]" as query, and exactly one more completion call, also when the
\* second completion contains the marker again; a call whose first completion
\* has no marker makes no search and no second completion call.
C3_SingleSearchRound ==
    /\ \A a \in RefIds : C3_OneRound(tasks[a])
    /\ C3_OneRound(ext)
    /\ \A a \in RefIds : tasks[a].raw = MARKED /\ tasks[a].st \in {"call2", "done"}
                            => tasks[a].queries = << <<"solar", SP, "flares">> >>

\* a reference agent searched once and its second completion asked again
C3_SecondMarkerIgnored ==
    \E a \in RefIds :
       /\ tasks[a].st = "done"
       /\ tasks[a].raw = MARKED /\ tasks[a].response = MARKED
       /\ tasks[a].ncalls = 2 /\ Len(tasks[a].queries) = 1

\* ---- C4
\* C4 as stated: after any commands and turns, the count get_response clamps
\* its retrieval size with equals the number of chunks the index holds.
C4_CountMatchesIndex == document_count = Len(archive)

\* ---- C5
C5_Clamp(count) == IF count < 1 THEN 1 ELSE IF count > 3 THEN 3 ELSE count

\* C5 as stated: every request made to the archival index, by a turn or by
\* search_archival_memory, asks for k = min(3, max(1, chunk count)); with no
\* chunk it asks for 1.
C5_EveryRequestClamped ==
    \A i \in 1..Len(retrievals) : retrievals[i].k = C5_Clamp(retrievals[i].count)

\* ---- C6
\* the context of a turn that retrieved docs for its input and nothing else
C6_InputOnlyContext ==
    CONTEXT_HEADER
    \o (IF turn.docs = <<>> THEN NO_DOCUMENTS
        ELSE Concat([i \in 1..Len(turn.docs) |-> turn.docs[i] \o <<NL2>>]))
    \o QUESTION_HEADER \o input

\* C6: when the output of the extension agent is not JSON, or is JSON that
\* fails validation, the expanded query list is empty and no exception leaves
\* get_response: the synthesis call is made with a context built from the one
\* retrieval for the original input, and the turn then returns its answer.
C6_FailedExpansionIsEmpty ==
    /\ [](pc = "synth" /\ ~turn.parse_ok =>
             /\ turn.nqueries = 0
             /\ Len(retrievals) = 1
             /\ turn.synth_calls = 1
             /\ final_prompt = << Msg("system", SystemPrompt(FINAL_AGENT)),
                                  Msg("user", C6_InputOnlyContext) >>)
    /\ [][ (pc = "synth" /\ ~turn.parse_ok /\ pc' # pc) =>
              /\ pc' = "idle"
              /\ turn'.outcome = "ok"
              /\ ret'.op = "get_response" /\ ret'.value \in SynthCompletions ]_vars

\* the synthesis call is in flight after an expansion that failed, with more
\* chunks in the index than the one retrieval returned
C6_FailedExpansion ==
    /\ pc = "synth"
    /\ ~turn.parse_ok
    /\ turn.docs # <<>>
    /\ Len(archive) > Len(turn.docs)

\* ---- C7
C7_Sections == {"persona", "user", "scratchpad", "misc"}
C7_Keys == {"tone", "personality"}
C7_Lookup(doc, section, key) ==
    IF DictHas(doc, section) /\ DictHas(DictGet(doc, section), key)
    THEN DictGet(DictGet(doc, section), key)
    ELSE JNone

\* C7 as stated: edit_core_memory(section, key, value) followed by
\* load_core_memory returns a document with section[key] = value and every
\* other section and key as before; clear_core_memory followed by
\* load_core_memory returns the empty three-section document.
C7_EditThenLoad ==
    /\ [][ \A e \in CoreEdits :
              (\E written \in BOOLEAN : edit_core_memory(e[1], e[2], e[3], written)) =>
                 /\ C7_Lookup(LoadedCore(core_file'), e[1], e[2]) = JStr(e[3])
                 /\ \A s \in C7_Sections, k \in C7_Keys :
                       <<s, k>> # <<e[1], e[2]>> =>
                          C7_Lookup(LoadedCore(core_file'), s, k)
                             = C7_Lookup(LoadedCore(core_file), s, k) ]_vars
    /\ [][ clear_core_memory => LoadedCore(core_file') = EmptyCore ]_vars

\* ---- C8
\* C8 as stated: no failure of an external call leaves get_response as an
\* exception; every call ends by returning an answer or the all-agents-failed
\* error text.
C8_NoExceptionLeaves == pc # "raised"

\* ---- C9
\* the direct search on the input ran and its result carries the success marker
C9_DirectSucceeded ==
    \E i \in 1..Len(turn.evidence) : turn.evidence[i] = SUCCESS_MARKER

C9_Expected == turn.ref_searched \/ (web_search_enabled /\ C9_DirectSucceeded)

\* C9: the flag get_response returns is TRUE exactly when a reference agent
\* (kept or dropped) performed a search during fan-out, or web search is
\* enabled and the direct search on the input returned the success marker; a
\* search by the extension agent does not change it.
C9_FlagDefinition ==
    /\ [](pc \in {"expand", "synth"} => wsp = C9_Expected)
    /\ [][ (pc = "synth" /\ pc' = "idle") =>
              ret'.op = "get_response" /\ ret'.flag = C9_Expected ]_vars

\* the extension agent searched, and the flag of the turn is FALSE
C9_ExtensionSearchOnly ==
    /\ pc = "synth"
    /\ turn.ext_searched
    /\ ~wsp

\* ---- C10
C10_Shuffled(p) == [i \in RefIds |-> GatherResults[p[i]]]
C10_Kept(results, text) ==
    Cardinality({i \in 1..Len(FanInReferences(results)) : FanInReferences(results)[i] = text})

\* C10: with the reference agents listed in any other order, fan-in keeps the
\* same references (each as many times), takes the same abort decision and
\* computes the same search flag; and the prompt of the synthesis call is the
\* system prompt and the retrieval context, with no reference text in it, so
\* that the order of the references cannot show in it.
C10_OrderIndependent ==
    /\ (pc = "fanout" /\ AllReturned) =>
          \A p \in Permutations(RefIds) :
             /\ \A text \in {GatherResults[i].response : i \in RefIds} :
                   C10_Kept(C10_Shuffled(p), text) = C10_Kept(GatherResults, text)
             /\ Len(FanInReferences(C10_Shuffled(p))) = Len(FanInReferences(GatherResults))
             /\ Aborts(FanInReferences(C10_Shuffled(p)))
                   = Aborts(FanInReferences(GatherResults))
             /\ FanInSearched(C10_Shuffled(p)) = FanInSearched(GatherResults)
    /\ pc = "synth" =>
          /\ Len(final_prompt) = 2
          /\ final_prompt[1] = Msg("system", SystemPrompt(FINAL_AGENT))
          /\ final_prompt[2].role = "user"
          /\ \A text \in {FinalText(c) : c \in RefCompletions} :
                StartsWith(text, <<ERROR_PREFIX>>)
                   \/ ~Contains(final_prompt[2].content, text)

\* the gathered results differ from agent to agent: one searched and failed,
\* one answered without searching
C10_MixedResults ==
    /\ pc = "fanout" /\ AllReturned
    /\ \E a, b \in RefIds :
          /\ tasks[a].searched /\ StartsWith(tasks[a].response, <<ERROR_PREFIX>>)
          /\ ~tasks[b].searched /\ tasks[b].response = PLAIN

\* ---- C11
C11_Extends(log, grown) ==
    /\ Len(grown) >= Len(log)
    /\ \A i \in 1..Len(log) : grown[i] = log[i]

\* C11: the event log only grows, and only by turns.  A get_response call
\* appends the user turn first, while no reference agent has been invoked; a
\* successful turn appends one assistant turn as its last step; an aborted
\* turn appends nothing more, so the log ends with the user turn; no command
\* changes the log, and no entry is ever changed or removed.
C11_EventLogTracksTurns ==
    /\ [][ C11_Extends(events, events') ]_vars
    /\ [][ (pc = "idle" /\ pc' = "fanout") =>
              /\ \A a \in RefIds : tasks[a].ncalls = 0
              /\ events' = Append(events, [role |-> "user", message |-> input']) ]_vars
    /\ [][ (pc = "synth" /\ pc' = "idle") =>
              /\ ret'.op = "get_response"
              /\ events' = Append(events, [role |-> "assistant", message |-> ret'.value])
              /\ turn'.outcome = "ok" /\ Len(events') = turn'.events0 + 2 ]_vars
    /\ [][ (pc = "fanout" /\ pc' = "idle") =>
              /\ events' = events
              /\ turn'.outcome = "aborted" /\ Len(events') = turn'.events0 + 1
              /\ events'[Len(events')].role = "user" ]_vars
    /\ [][ (pc = "idle" /\ pc' = "idle") \/ (pc = pc' /\ pc # "idle") \/ pc' = "raised"
              \/ pc' = "expand" \/ pc' = "synth" => events' = events ]_vars

\* a turn has returned its answer with the user turn and the assistant turn
\* as the last two entries of the log
C11_TurnLogged ==
    /\ turn.outcome = "ok"
    /\ Len(events) = turn.events0 + 2
    /\ events[Len(events) - 1].role = "user"
    /\ events[Len(events)] = [role |-> "assistant", message |-> ret.value]

\* ---- C12
\* C12: get_response never changes the core memory: no step of a turn,
\* successful or aborted, changes the document the orchestrator holds, the
\* one the memory library holds, or the file; the document changes only in
\* edit_core_memory and clear_core_memory.
C12_TurnKeepsCoreMemory ==
    /\ [][ (pc # "idle" \/ pc' # "idle") =>
              /\ core_memory' = core_memory
              /\ agent_core' = agent_core
              /\ core_file' = core_file ]_vars
    /\ [][ core_memory' # core_memory =>
              /\ pc = "idle" /\ pc' = "idle"
              /\ ret'.op \in {"edit_core_memory", "clear_core_memory"} ]_vars

\* a turn has returned while the core memory held an edit
C12_TurnAfterEdit ==
    /\ turn.outcome \in {"ok", "aborted"}
    /\ ret.op = "get_response"
    /\ core_memory # EmptyCore

\* ---- C13
C13_SectionNames(doc) == {doc.items[i].k : i \in 1..Len(doc.items)}

\* C13 as stated: after any edits and clears of the core memory, the section
\* names of the document are exactly persona, user and scratchpad.
C13_ThreeSections == C13_SectionNames(core_memory) = {"persona", "user", "scratchpad"}

\* ---- C14
\* C14 as stated: every chunk of the archival index is non-empty after
\* trimming white space, whatever adds, edits, uploads and turns came before;
\* an add of empty or white-space content fails and changes neither the index
\* nor the count.
C14_NoEmptyChunk ==
    /\ [](\A i \in 1..Len(archive) : Strip(archive[i]) # <<>>)
    /\ [][ (ret'.op = "add_to_archival_memory" /\ steps' # steps
              /\ ret'.value = <<"Failed to add empty content to archival memory.">>) =>
              archive' = archive /\ document_count' = document_count ]_vars

\* ---- C15
C15_Edited(new) ==
    /\ pc = "idle" /\ steps' = steps + 1
    /\ ret'.op = "edit_archival_memory"
    /\ ret'.value[1] = "New content '"
    /\ SubSeq(ret'.value, 2, Len(ret'.value) - 1) = new

\* C15: edit_archival_memory(old, new) only adds: the index afterwards is the
\* index before with new as one more chunk at its end, the chunk count is one
\* higher, and every chunk held before (one with content old included) is
\* still held, unaltered.
C15_EditOnlyAdds ==
    [][ \A new \in Contents : C15_Edited(new) =>
           /\ Len(archive') = Len(archive) + 1
           /\ archive'[Len(archive')] = new
           /\ \A i \in 1..Len(archive) : archive'[i] = archive[i]
           /\ document_count' = document_count + 1 ]_vars

\* an edit was made on an index that held a chunk: both are held afterwards
C15_EditedIndex ==
    /\ ret.op = "edit_archival_memory"
    /\ Len(archive) >= 2
    /\ archive[1] = <<"doc">>
    /\ document_count >= 2

\* ---- C16
C16_Uploaded ==
    /\ pc = "idle" /\ steps' = steps + 1
    /\ ret'.op = "upload_document"

C16_Unsupported == "Unsupported file type:"
C16_Empty == "The file is empty or could not be read."

\* C16: upload_document always returns a status text and changes neither the
\* event log nor the core memory.  For an unsupported extension or a content
\* that is empty after trimming, the index and the chunk count are unchanged
\* too; a successful upload reports n splits, adds exactly n chunks after those
\* already held, and raises the chunk count by n.
C16_UploadEffects ==
    /\ [][ C16_Uploaded =>
              /\ events' = events
              /\ core_memory' = core_memory /\ agent_core' = agent_core
              /\ core_file' = core_file
              /\ IF ret'.value[1] = "Document"
                 THEN \E n \in 1..Len(archive') :
                         /\ ret'.value[Len(ret'.value) - 2] = ToString(n)
                         /\ Len(archive') = Len(archive) + n
                         /\ \A i \in 1..Len(archive) : archive'[i] = archive[i]
                         /\ document_count' = document_count + n
                 ELSE /\ archive' = archive
                      /\ document_count' = document_count ]_vars
    /\ [][ upload_document(<<"page", "md">>) => ret'.value[1] = C16_Unsupported ]_vars
    /\ [][ upload_document(<<"blank", "txt">>) => ret'.value[1] = C16_Empty ]_vars
    /\ [][ upload_document(<<"notes", "TXT">>) => ret'.value[1] = "Document" ]_vars

\* a file of two paragraphs was uploaded as two chunks
C16_TwoChunksUploaded ==
    /\ ret.op = "upload_document"
    /\ ret.value[1] = "Document"
    /\ ret.value[Len(ret.value) - 2] = "2"
    /\ Len(archive) >= 2
    /\ archive[Len(archive) - 1] = <<"para-A">>

\* ---- C17
\* C17: after any assignments through the model setter, the primary-model
\* alias of the orchestrator equals the model of the synthesis agent, and no
\* step (the setter included) changes the model of a reference agent.
C17_ModelAlias ==
    /\ [](primary_model = final_model)
    /\ [][ reference_models' = reference_models ]_vars
    /\ [][ \A value \in Models : set_model(value) =>
              primary_model' = value /\ final_model' = value ]_vars

\* the setter has given both the alias and the synthesis agent another model
C17_ModelChanged ==
    /\ primary_model = "model-b"
    /\ final_model = "model-b"
    /\ \A a \in RefIds : reference_models[a] = "model-r"

\* ---- C18
\* C18: the fan-out is a join.  One step of the turn starts the
\* generate_response of every reference agent, each on the raw input with its
\* own system prompt, while no completion has returned; no agent is started a
\* second time; and the turn leaves the fan-out for fan-in and the later
\* phases only when every reference agent has returned.
C18_FanOutIsJoin ==
    /\ [][ (pc = "idle" /\ pc' = "fanout") =>
              \A a \in RefIds :
                 /\ tasks[a].st = "idle"
                 /\ tasks'[a].st = "call1" /\ tasks'[a].ncalls = 1
                 /\ tasks'[a].messages =
                       << Msg("system", SystemPrompt(reference_agents[a])),
                          Msg("user", input') >> ]_vars
    /\ [](pc = "fanout" => \A a \in RefIds : tasks[a].st # "idle")
    /\ [][ \A a \in RefIds : tasks'[a].st = "call1" => tasks[a].st \in {"idle", "call1"} ]_vars
    /\ [][ (pc = "fanout" /\ pc' \in {"idle", "expand", "synth"}) =>
              \A a \in RefIds : tasks[a].st = "done" ]_vars
    /\ []((\E i \in 1..Len(turn.phases) : turn.phases[i] = "fan-in") => pc # "fanout")

\* one agent has returned and waits for a straggler: fan-in has not begun
C18_Straggler ==
    /\ pc = "fanout"
    /\ turn.phases = <<"ingest", "fan-out">>
    /\ \E a, b \in RefIds : tasks[a].st = "done" /\ tasks[b].st = "call1"

\* ---- C19
C19_InFlight == pc = "fanout" /\ \E a \in RefIds : tasks[a].st \in {"call1", "call2"}

\* the exchange of agent a before its first completion
C19_Opening(a) ==
    << Msg("system", SystemPrompt(reference_agents[a])), Msg("user", input) >>

\* the request that follows a search of agent a: its own query and evidence
C19_Requests(a) ==
    { Msg("user", <<"Here are the search results for '">> \o C3_Between(tasks[a].raw)
                  \o <<"':", NL2>> \o SearchWeb(o.hrefs)
                  \o <<NL2, "Please provide an updated response based on this information.">>)
      : o \in {d \in DdgsOutcomes : ~d.raised} }

\* C19: while a reference agent of the fan-out is in flight, no step changes
\* the archival index, the chunk count, the event log or the core memory; a
\* step of one agent changes no other agent's call; and what an agent gives to
\* the completion function is made of its own system prompt, the raw input
\* and, after a search, its own first response, query and search evidence.
C19_FanOutIsolation ==
    /\ [][ C19_InFlight =>
              /\ archive' = archive /\ document_count' = document_count
              /\ events' = events
              /\ core_memory' = core_memory /\ agent_core' = agent_core
              /\ core_file' = core_file ]_vars
    /\ [][ (pc = "fanout" /\ pc' = "fanout") =>
              Cardinality({a \in RefIds : tasks'[a] # tasks[a]}) <= 1 ]_vars
    /\ [](pc = "fanout" =>
             \A a \in RefIds :
                /\ tasks[a].st = "call1" => tasks[a].messages = C19_Opening(a)
                /\ tasks[a].st = "call2" =>
                      /\ Len(tasks[a].messages) = 4
                      /\ SubSeq(tasks[a].messages, 1, 2) = C19_Opening(a)
                      /\ tasks[a].messages[3] = Msg("assistant", tasks[a].raw)
                      /\ tasks[a].messages[4] \in C19_Requests(a))

\* one agent is asking again after its search while another still waits for
\* its first completion
C19_SearchBesideWaiting ==
    /\ pc = "fanout"
    /\ \E a, b \in RefIds :
          /\ tasks[a].st = "call2" /\ Len(tasks[a].messages) = 4
          /\ tasks[b].st = "call1"

\* ---- C20
C20_Order ==
    <<"ingest", "fan-out", "fan-in", "direct augmentation", "query expansion",
      "multi-query retrieval", "context assembly", "synthesize", "commit">>

C20_Prefix(short, long) ==
    /\ Len(short) <= Len(long)
    /\ \A i \in 1..Len(short) : short[i] = long[i]

C20_Moves ==
    { <<"idle", "fanout">>, <<"fanout", "idle">>, <<"fanout", "expand">>,
      <<"fanout", "raised">>, <<"expand", "synth">>, <<"expand", "raised">>,
      <<"synth", "idle">> }

\* C20: the phases of a turn run in the order ingest, fan-out, fan-in, direct
\* augmentation, query expansion, multi-query retrieval, context assembly,
\* synthesize, commit, each at most once: the phases a turn has passed are
\* always a beginning of that list and only grow while it runs; the synthesis
\* call is made at most once; and the assistant turn is committed only by the
\* step in which the one synthesis call returns.
C20_PhaseOrder ==
    /\ [](C20_Prefix(turn.phases, C20_Order))
    /\ [](turn.synth_calls <= 1)
    /\ [][ pc' # pc => <<pc, pc'>> \in C20_Moves ]_vars
    /\ [][ (pc # "idle" /\ turn'.outcome # "none") =>
              C20_Prefix(turn.phases, turn'.phases) ]_vars
    /\ [][ (Len(events') > Len(events) /\ events'[Len(events')].role = "assistant") =>
              /\ pc = "synth" /\ pc' = "idle"
              /\ turn.synth_calls = 1
              /\ turn.phases = SubSeq(C20_Order, 1, 8)
              /\ turn'.phases = C20_Order ]_vars

\* a turn has passed all nine phases
C20_FullTurn ==
    /\ turn.outcome = "ok"
    /\ turn.phases = C20_Order
    /\ turn.synth_calls = 1

\* ---- C21
\* C21: the search on the raw input is gated by the web-search switch alone.
\* A turn that has passed fan-in has called search_web on the raw input
\* exactly once when web search is enabled, whether or not a reference agent
\* searched, and has not called it when web search is disabled; a turn still
\* in its fan-out, and a turn that aborted at fan-in, has not called it.
C21_DirectSearchGated ==
    /\ pc \in {"expand", "synth"} =>
          IF web_search_enabled
          THEN turn.direct_calls = 1 /\ turn.evidence \in {SearchWeb(<<>>), SearchWeb(<<"url1">>)}
          ELSE turn.direct_calls = 0 /\ turn.evidence = <<>>
    /\ pc = "fanout" => turn.direct_calls = 0
    /\ turn.outcome = "aborted" => turn.direct_calls = 0 /\ turn.evidence = <<>>
    /\ (pc = "raised" /\ turn.direct_calls = 1) => web_search_enabled

\* the raw input was searched in a turn whose reference agents had searched
C21_SearchedTwice ==
    /\ pc = "expand"
    /\ web_search_enabled
    /\ turn.ref_searched
    /\ turn.direct_calls = 1

\* ---- C22
RECURSIVE C22_MadeOf(_, _)
\* text is a run of chunks, each followed by a blank line
C22_MadeOf(text, chunks) ==
    \/ text = <<>>
    \/ \E i \in 1..Len(chunks) :
          /\ StartsWith(text, chunks[i] \o <<NL2>>)
          /\ C22_MadeOf(SubSeq(text, Len(chunks[i]) + 2, Len(text)), chunks)

\* what lies between the header of the context and the question
C22_Body(content) ==
    SubSeq(content, Len(CONTEXT_HEADER) + 1,
           Len(content) - Len(QUESTION_HEADER) - Len(input))

\* C22: the synthesis call is given exactly two messages, the system prompt
\* of the synthesis agent and one user message: the context header, chunks of
\* the archival index (or the no-documents notice), and the question.  No
\* reference text, no references or web-results message and no search
\* evidence is in it, so turns that differ only in those send the same input.
C22_SynthesisInput ==
    pc = "synth" =>
       /\ Len(final_prompt) = 2
       /\ final_prompt[1] = Msg("system", SystemPrompt(FINAL_AGENT))
       /\ final_prompt[2].role = "user"
       /\ StartsWith(final_prompt[2].content, CONTEXT_HEADER)
       /\ SubSeq(final_prompt[2].content,
                 Len(final_prompt[2].content) - Len(QUESTION_HEADER) - Len(input) + 1,
                 Len(final_prompt[2].content)) = QUESTION_HEADER \o input
       /\ \/ C22_Body(final_prompt[2].content) = NO_DOCUMENTS
          \/ C22_MadeOf(C22_Body(final_prompt[2].content), archive)
       /\ \A i \in 1..Len(final_prompt[2].content) :
             final_prompt[2].content[i] \notin {SUCCESS_MARKER, NO_INFO, "ans"}

\* the synthesis call is in flight in a turn whose reference agents searched
\* and whose direct search brought evidence
C22_EvidenceLeftOut ==
    /\ pc = "synth"
    /\ turn.ref_searched
    /\ turn.direct_hit
    /\ Len(final_prompt) = 2

\* ---- C23
RECURSIVE C23_Written(_)
\* the characters of a text, read from its end
C23_Written(text) ==
    IF text = <<>> THEN ""
    ELSE C23_Written(SubSeq(text, 1, Len(text) - 1)) \o text[Len(text)]
\* the places where the characters of part stand in those of text
C23_Places(part, text) ==
    {i \in 1..(Len(text) - Len(part) + 1) : SubSeq(text, i, i + Len(part) - 1) = part}
\* whether part is a substring of text
C23_In(part, text) == C23_Places(C23_Written(part), C23_Written(text)) # {}
\* the number of places where it occurs
C23_Count(part, text) == Cardinality(C23_Places(C23_Written(part), C23_Written(text)))

RECURSIVE C23_Original(_)
\* the context once the chunks retrieved for the input are in: every one of
\* them, in retrieval order, each followed by a blank line
C23_Original(docs) ==
    IF docs = <<>> THEN CONTEXT_HEADER
    ELSE C23_Original(SubSeq(docs, 1, Len(docs) - 1)) \o docs[Len(docs)] \o <<NL2>>

RECURSIVE C23_Flat(_)
\* the chunks retrieved for the expansion queries, in the order they are met
C23_Flat(perQuery) ==
    IF perQuery = <<>> THEN <<>> ELSE Head(perQuery) \o C23_Flat(Tail(perQuery))

RECURSIVE C23_Expanded(_, _)
\* the context after the chunks of the expansion queries: a chunk is appended
\* if and only if the context built so far does not contain it
C23_Expanded(context, chunks) ==
    IF chunks = <<>> THEN context
    ELSE C23_Expanded(IF C23_In(Head(chunks), context) THEN context
                      ELSE context \o Head(chunks) \o <<NL2>>,
                      Tail(chunks))

\* the context of the turn, without the question that closes it
C23_Context ==
    SubSeq(final_prompt[2].content, 1,
           Len(final_prompt[2].content) - Len(QUESTION_HEADER) - Len(input))

\* C23, the part that holds: while the synthesis call is in flight, the context
\* is the header, then every chunk retrieved for the original input in
\* retrieval order (the no-documents notice when there is none), then the
\* chunks retrieved for the expansion queries, each appended if and only if
\* the context accumulated so far does not contain it.  Chunks retrieved
\* for the original input are not filtered, so a content the index holds twice
\* can stand twice in the context.
C23_ExpansionFiltered ==
    pc = "synth" =>
        C23_Context =
            C23_Expanded(IF turn.docs = <<>> THEN CONTEXT_HEADER \o NO_DOCUMENTS
                         ELSE C23_Original(turn.docs),
                         C23_Flat(turn.qdocs))

\* an expansion query retrieved a chunk that was appended and one that was
\* left out
C23_OneKeptOneSkipped ==
    /\ pc = "synth"
    /\ turn.docs # <<>>
    /\ \E j \in 1..Len(turn.qdocs) : \E i \in 1..Len(turn.qdocs[j]) :
          /\ turn.qdocs[j][i] # <<>>
          /\ C23_In(turn.qdocs[j][i], C23_Original(turn.docs))
    /\ Len(C23_Context) > Len(C23_Original(turn.docs))

\* C23 as stated: the appending rule, and in consequence no content retrieved
\* for an expansion query stands in the assembled context more than once.
C23_NoContentTwice ==
    /\ C23_ExpansionFiltered
    /\ pc = "synth" =>
          \A j \in 1..Len(turn.qdocs) : \A i \in 1..Len(turn.qdocs[j]) :
             turn.qdocs[j][i] # <<>> =>
                C23_Count(turn.qdocs[j][i], C23_Context) <= 1

\* ---- C24
\* C24: a turn that aborts at fan-in returns the all-failed error with the
\* search-performed flag false, whether or not a dropped reference agent
\* performed a web search during the turn.
C24_AbortFlagFalse ==
    turn.outcome = "aborted" =>
        /\ ret.op = "get_response"
        /\ ret.value = ALL_FAILED
        /\ ret.flag = FALSE

\* the turn aborted although a dropped agent had searched
C24_DroppedAgentSearched ==
    /\ turn.outcome = "aborted"
    /\ turn.ref_searched
    /\ ret.op = "get_response"
    /\ ret.flag = FALSE

====
